---- MODULE Spec2Model ----
(***************************************************************************)
(* Type inference of ruby-analyzer.                                        *)
(*                                                                         *)
(* Part I  models src/src/typecheck.rs: the flat Instance/Class            *)
(*         environment (Env) and the recursive function typecheck over     *)
(*         the nodes of src/src/parser.rs.                                 *)
(* Part II models the visitor engine (TypeChecker) that tests/typecheck.rs *)
(*         drives: objects, scopes, value stack and error log.             *)
(***************************************************************************)
EXTENDS Integers, Sequences, FiniteSets, TLC

(***************************************************************************)
(* Bounds of the model.                                                    *)
(***************************************************************************)
\* Longest instance list explored, and deepest chain of nested assignments.
MaxInstances == 3

\* Identifiers, and literal values, the nodes are built from.
Names == {"x", "y", "Integer"}
IntegerValues == {5, 42}
StringValues == {"", "hello"}

None == [tag |-> "None"]
Some(v) == [tag |-> "Some", value |-> v]

Ok(v) == [tag |-> "Ok", value |-> v]
Err(e) == [tag |-> "Err", error |-> e]

(***************************************************************************)
(* Part I.  src/src/parser.rs: nodes.                                      *)
(***************************************************************************)
Location(line, column) == [line |-> line, column |-> column]

Node(node_type, location) == [node_type |-> node_type, location |-> location]

NodeType_Integer(value) == [tag |-> "Integer", value |-> value]
NodeType_String(value) == [tag |-> "String", value |-> value]
NodeType_Variable(name) == [tag |-> "Variable", name |-> name]
NodeType_Assignment(name, node) == [tag |-> "Assignment", name |-> name, node |-> node]

\* The leaves parse_expression can produce at one column.
LeafNodes(column) ==
    {Node(NodeType_Integer(v), Location(1, column)) : v \in IntegerValues}
    \cup {Node(NodeType_String(s), Location(1, column)) : s \in StringValues}
    \cup {Node(NodeType_Variable(n), Location(1, column)) : n \in Names}

\* The expressions of at most k nested assignments starting at a column:
\* name = name = ... = leaf, each right-hand side located after its target.
RECURSIVE Expressions(_, _)
Expressions(column, k) ==
    LeafNodes(column)
    \cup IF k = 0 THEN {}
         ELSE {Node(NodeType_Assignment(n, sub), Location(1, column)) :
                  n \in Names, sub \in Expressions(column + 2, k - 1)}

\* Number of nested Assignment nodes of a node.
RECURSIVE Depth(_)
Depth(node) ==
    IF node.node_type.tag = "Assignment" THEN 1 + Depth(node.node_type.node) ELSE 0

\* The targets of a chain of assignments, outermost first.
RECURSIVE Targets(_)
Targets(node) ==
    IF node.node_type.tag = "Assignment"
    THEN <<node.node_type.name>> \o Targets(node.node_type.node)
    ELSE <<>>

\* The leaf a chain of assignments ends in.
RECURSIVE Leaf(_)
Leaf(node) ==
    IF node.node_type.tag = "Assignment" THEN Leaf(node.node_type.node) ELSE node

(***************************************************************************)
(* Part I.  src/src/typecheck.rs: types, instances, Env.                   *)
(***************************************************************************)
Type_Variable(class) == [tag |-> "Variable", class |-> class]
Type_Function(args, ret) == [tag |-> "Function", args |-> args, ret |-> ret]

Class(methods) == [methods |-> methods]

Instance(id, ty) == [id |-> id, ty |-> ty]

Env_new(instances, classes) == [instances |-> instances, classes |-> classes]

default_class ==
    "Integer" :> Class("to_s" :> Type_Function(<<>>, "String"))

Env_default == Env_new(<<>>, default_class)

add_instance_in_place(env, name, ty) ==
    IF \E i \in 1..Len(env.instances) : env.instances[i].id = name
    THEN [env EXCEPT !.instances =
             [i \in 1..Len(env.instances) |->
                 IF env.instances[i].id = name THEN Instance(name, ty)
                 ELSE env.instances[i]]]
    ELSE [env EXCEPT !.instances = Append(env.instances, Instance(name, ty))]

add_instance(env, name, ty) ==
    [env EXCEPT !.instances = Append(env.instances, Instance(name, ty))]

get_instance_type_oldest(env, name) ==
    LET hits == {i \in 1..Len(env.instances) : env.instances[i].id = name}
    IN  IF hits = {} THEN None
        ELSE Some(env.instances[CHOOSE i \in hits : \A j \in hits : i <= j].ty)

\* iter().rev().find(): the binding of the largest index whose id is name.
get_instance_type(env, name) ==
    LET hits == {i \in 1..Len(env.instances) : env.instances[i].id = name}
    IN  IF hits = {} THEN None
        ELSE Some(env.instances[CHOOSE i \in hits : \A j \in hits : j <= i].ty)

get_class(env, name) ==
    IF name \in DOMAIN env.classes THEN Some(env.classes[name]) ELSE None

UndefinedVariable(name) == [tag |-> "UndefinedVariable", name |-> name]

TypecheckError(node, kind) == [node |-> node, kind |-> kind]

(***************************************************************************)
(* typecheck takes env by mutable reference: the model returns the result  *)
(* together with the environment the call leaves behind.                   *)
(***************************************************************************)
typecheck_Integer_as_String(env) ==
    [result |-> Ok(Type_Variable("String")), env |-> env]

typecheck_Integer(env) ==
    [result |-> Ok(Type_Variable("Integer")), env |-> env]

typecheck_String(env) ==
    [result |-> Ok(Type_Variable("String")), env |-> env]

typecheck_Variable_binds_miss(node, env) ==
    LET name == node.node_type.name
        found == get_instance_type(env, name)
    IN  IF found # None
        THEN [result |-> Ok(found.value), env |-> env]
        ELSE [result |-> Err(TypecheckError(node, UndefinedVariable(name))),
              env |-> add_instance(env, name, Type_Variable("Unknown"))]

typecheck_Variable(node, env) ==
    LET name == node.node_type.name
        found == get_instance_type(env, name)
    IN  IF found # None
        THEN [result |-> Ok(found.value), env |-> env]
        ELSE [result |-> Err(TypecheckError(node, UndefinedVariable(name))),
              env |-> env]

\* An assignment that keeps the first binding of a name.
typecheck_Assignment_once(name, rhs) ==
    IF rhs.result.tag = "Err"
    THEN rhs
    ELSE [result |-> rhs.result,
          env |-> IF get_instance_type(rhs.env, name) # None THEN rhs.env
                  ELSE add_instance(rhs.env, name, rhs.result.value)]

\* An assignment that binds its target although its right-hand side failed.
typecheck_Assignment_binds_on_error(name, rhs) ==
    IF rhs.result.tag = "Err"
    THEN [result |-> rhs.result,
          env |-> add_instance(rhs.env, name, Type_Variable("Unknown"))]
    ELSE [result |-> rhs.result,
          env |-> add_instance(rhs.env, name, rhs.result.value)]

\* The Assignment arm after its recursive call: rhs is what
\* typecheck(node.as_ref(), env) returned and left of env; `?` returns the
\* error as it is.
typecheck_Assignment(name, rhs) ==
    IF rhs.result.tag = "Err"
    THEN rhs
    ELSE [result |-> Ok(rhs.result.value),
          env |-> add_instance(rhs.env, name, rhs.result.value)]

RECURSIVE typecheck(_, _)
typecheck(node, env) ==
    CASE node.node_type.tag = "Integer" -> typecheck_Integer(env)
      [] node.node_type.tag = "String" -> typecheck_String(env)
      [] node.node_type.tag = "Variable" -> typecheck_Variable(node, env)
      [] node.node_type.tag = "Assignment" ->
            typecheck_Assignment(node.node_type.name,
                                 typecheck(node.node_type.node, env))

(***************************************************************************)
(* State of Part I: one Env and the calls made on it.                      *)
(***************************************************************************)
VARIABLES
    env,           \* the Env the calls share
    prevEnv,       \* env as the last call found it
    call,          \* the last call: its operation and arguments
    result,        \* what the last call returned
    lastAssigned,  \* per name, the type of the last successful assignment
    \* Part II, the TypeChecker:
    objects,       \* object name -> Signature
    scopes,        \* stack of local-variable tables
    value_stack,   \* stack of Type
    errors,        \* the error log
    todo,          \* what the traversal still has to do, next first
    panicked,      \* a handler popped an empty value stack
    written,       \* per local, the type the callable being visited bound last
    lastVisit,     \* the expression visit completed last
    defDone        \* the callable visit completed last

checkerVars ==
    <<objects, scopes, value_stack, errors, todo, panicked, written, lastVisit, defDone>>

flatVars == <<env, prevEnv, call, result, lastAssigned>>

Unit == [tag |-> "Unit"]

FlatInit ==
    /\ env = Env_default
    /\ prevEnv = Env_default
    /\ call = [op |-> "default"]
    /\ result = Unit
    /\ lastAssigned = [n \in Names |-> None]

\* typecheck(&node, &mut env)
Typecheck ==
    \E node \in Expressions(1, MaxInstances) :
        /\ Len(env.instances) + Depth(node) <= MaxInstances
        /\ LET r == typecheck(node, env)
           IN  /\ env' = r.env
               /\ result' = r.result
               /\ lastAssigned' =
                     IF r.result.tag = "Ok"
                     THEN [n \in Names |->
                             IF \E i \in 1..Len(Targets(node)) : Targets(node)[i] = n
                             THEN Some(r.result.value)
                             ELSE lastAssigned[n]]
                     ELSE lastAssigned
        /\ prevEnv' = env
        /\ call' = [op |-> "typecheck", node |-> node]
        /\ UNCHANGED checkerVars

\* env.add_instance(name, ty)
AddInstance ==
    \E name \in Names, ty \in {Type_Variable("Integer"), Type_Variable("String")} :
        /\ Len(env.instances) < MaxInstances
        /\ env' = add_instance(env, name, ty)
        /\ prevEnv' = env
        /\ call' = [op |-> "add_instance", name |-> name, ty |-> ty]
        /\ result' = Unit
        /\ lastAssigned' = [lastAssigned EXCEPT ![name] = Some(ty)]
        /\ UNCHANGED checkerVars

(***************************************************************************)
(* Part II.  The visitor engine: TypeChecker.                              *)
(*                                                                         *)
(* A callable is visited handler by handler.  The handlers of a node with  *)
(* children run in two parts, before and after the children; todo holds    *)
(* the parts still to run.  The tree is read in source order, so the model *)
(* draws each node when the traversal reaches it: a callable's body is a   *)
(* sequence of 1..MaxStmts statements, each an integer or string literal,  *)
(* a local read, or a local write of at most MaxNest nested writes.        *)
(***************************************************************************)
MaxStmts == 2
MaxNest == 1
MaxErrors == 2

DefNames == {"a", "b"}
Locals == {"x"}

Type_alias(name) == [tag |-> "Alias", name |-> name]
Type_Signature(methods) == [tag |-> "Signature", methods |-> methods]
Method_new(params, ret) == [args |-> params, ret |-> ret]

Unknown == Type_alias("Unknown")

TypeError(kind, span) == [kind |-> kind, span |-> span]

EmptyTable == [n \in {} |-> Unknown]

\* The objects a new TypeChecker knows: the root object and the built-in
\* integer class with its stringify method.
default_objects ==
    ("#main" :> Type_Signature(EmptyTable))
    @@ ("Integer" :> Type_Signature("to_s" :> Method_new(<<>>, Type_alias("String"))))

get_object(objs, name) ==
    IF name \in DOMAIN objs THEN Some(objs[name]) ELSE None

enter_scope(scps) == Append(scps, EmptyTable)

exit_scope_forgotten(scps) == scps

exit_scope(scps) == SubSeq(scps, 1, Len(scps) - 1)

\* Lookup of a local: the top-of-stack scope only.
lookup_local(scps, name) ==
    IF scps # <<>> /\ name \in DOMAIN scps[Len(scps)]
    THEN Some(scps[Len(scps)][name])
    ELSE None

bind_local(scps, name, ty) ==
    [scps EXCEPT ![Len(scps)] = (name :> ty) @@ scps[Len(scps)]]

\* A failed read that leaves the value stack as it found it.
push_placeholder_omitted(stack) == stack

\* What a failed read leaves on the value stack: the "Unknown" placeholder.
push_placeholder(stack) == Append(stack, Unknown)

pop(stack) == SubSeq(stack, 1, Len(stack) - 1)

top(stack) == stack[Len(stack)]

\* A callable whose return type is unknown is left out of the table.
record_method_known_only(objs, name, ret) ==
    IF ret = Unknown THEN objs
    ELSE [objs EXCEPT !["#main"] =
             Type_Signature((name :> Method_new(<<>>, ret)) @@ objs["#main"].methods)]

\* Insert or update the callable's entry of the root object's signature table.
record_method(objs, name, ret) ==
    [objs EXCEPT !["#main"] =
        Type_Signature((name :> Method_new(<<>>, ret)) @@ objs["#main"].methods)]

NoVisit == [kind |-> "none"]

CheckerInit ==
    /\ objects = default_objects
    /\ scopes = <<>>
    /\ value_stack = <<>>
    /\ errors = <<>>
    /\ todo = <<>>
    /\ panicked = FALSE
    /\ written = [n \in Locals |-> None]
    /\ lastVisit = NoVisit
    /\ defDone = NoVisit

Task == todo[1]

Running(t) == ~panicked /\ todo # <<>> /\ Task.t = t

ExprTask(line, column) == [t |-> "expr", line |-> line, column |-> column]

\* TypeChecker::new()
NewChecker ==
    /\ todo = <<>> \/ panicked
    /\ objects' = default_objects
    /\ scopes' = <<>>
    /\ value_stack' = <<>>
    /\ errors' = <<>>
    /\ todo' = <<>>
    /\ panicked' = FALSE
    /\ written' = [n \in Locals |-> None]
    /\ lastVisit' = NoVisit
    /\ defDone' = NoVisit
    /\ UNCHANGED flatVars

\* Callable handler, entry: enter a fresh scope, then visit the body.
VisitDef ==
    \E name \in DefNames :
        /\ ~panicked
        /\ todo = <<>>
        /\ scopes' = enter_scope(scopes)
        /\ todo' = <<[t |-> "stmts", line |-> 1],
                     [t |-> "def_exit", name |-> name,
                      before |-> Len(value_stack), depth |-> Len(scopes)]>>
        /\ written' = [n \in Locals |-> None]
        /\ lastVisit' = NoVisit
        /\ defDone' = NoVisit
        /\ UNCHANGED <<objects, value_stack, errors, panicked>>
        /\ UNCHANGED flatVars

\* Statement-sequence handler: visit the next statement; the value of every
\* statement but the last is popped and discarded.
VisitStatements ==
    \E last \in BOOLEAN :
        /\ Running("stmts")
        /\ Task.line = MaxStmts => last
        /\ todo' = <<ExprTask(Task.line, 1)>>
                   \o (IF last THEN <<>>
                       ELSE <<[t |-> "discard"], [t |-> "stmts", line |-> Task.line + 1]>>)
                   \o Tail(todo)
        /\ UNCHANGED <<objects, scopes, value_stack, errors, panicked, written,
                       lastVisit, defDone>>
        /\ UNCHANGED flatVars

\* Statement-sequence handler, after a statement that is not the last.
Discard ==
    /\ Running("discard")
    /\ IF value_stack = <<>>
       THEN panicked' = TRUE /\ UNCHANGED <<value_stack, todo, lastVisit>>
       ELSE /\ value_stack' = pop(value_stack)
            /\ todo' = Tail(todo)
            /\ lastVisit' = NoVisit
            /\ UNCHANGED panicked
    /\ UNCHANGED <<objects, scopes, errors, written, defDone>>
    /\ UNCHANGED flatVars

\* Integer literal handler.
VisitInteger ==
    /\ Running("expr")
    /\ value_stack' = Append(value_stack, Type_alias("Integer"))
    /\ todo' = Tail(todo)
    /\ lastVisit' = [kind |-> "integer", before |-> Len(value_stack),
                     after |-> Len(value_stack'), ty |-> top(value_stack'),
                     span |-> Location(Task.line, Task.column)]
    /\ UNCHANGED <<objects, scopes, errors, panicked, written, defDone>>
    /\ UNCHANGED flatVars

\* String literal handler.
VisitString ==
    /\ Running("expr")
    /\ value_stack' = Append(value_stack, Type_alias("String"))
    /\ todo' = Tail(todo)
    /\ lastVisit' = [kind |-> "string", before |-> Len(value_stack),
                     after |-> Len(value_stack'), ty |-> top(value_stack'),
                     span |-> Location(Task.line, Task.column)]
    /\ UNCHANGED <<objects, scopes, errors, panicked, written, defDone>>
    /\ UNCHANGED flatVars

\* Variable-read handler: push the local's type, or report
\* UndefinedVariable(name) and push the placeholder.
VisitLocalRead ==
    \E name \in Locals :
        /\ Running("expr")
        /\ LET found == lookup_local(scopes, name)
               span == Location(Task.line, Task.column)
           IN  /\ found = None => Len(errors) < MaxErrors
               /\ value_stack' = IF found # None THEN Append(value_stack, found.value)
                                 ELSE push_placeholder(value_stack)
               /\ errors' = IF found # None THEN errors
                            ELSE Append(errors, TypeError(UndefinedVariable(name), span))
               /\ lastVisit' = [kind |-> "read", name |-> name, bound |-> found # None,
                                before |-> Len(value_stack), after |-> Len(value_stack'),
                                ty |-> IF value_stack' = <<>> THEN None
                                       ELSE top(value_stack'),
                                errorsBefore |-> Len(errors), span |-> span]
        /\ todo' = Tail(todo)
        /\ UNCHANGED <<objects, scopes, panicked, written, defDone>>
        /\ UNCHANGED flatVars

\* Variable-write handler, entry: visit the value sub-expression first.
VisitLocalWrite ==
    \E name \in Locals :
        /\ Running("expr")
        /\ Task.column <= MaxNest
        /\ todo' = <<ExprTask(Task.line, Task.column + 1),
                     [t |-> "bind", name |-> name, before |-> Len(value_stack),
                      span |-> Location(Task.line, Task.column)]>>
                   \o Tail(todo)
        /\ UNCHANGED <<objects, scopes, value_stack, errors, panicked, written,
                       lastVisit, defDone>>
        /\ UNCHANGED flatVars

\* Variable-write handler, after the value: pop its type, bind the name in
\* the active scope, and leave the type as the value of the write.
WriteBind ==
    /\ Running("bind")
    /\ IF value_stack = <<>>
       THEN panicked' = TRUE /\ UNCHANGED <<value_stack, scopes, todo, written, lastVisit>>
       ELSE LET ty == top(value_stack)
            IN  /\ scopes' = bind_local(scopes, Task.name, ty)
                /\ value_stack' = Append(pop(value_stack), ty)
                /\ written' = [written EXCEPT ![Task.name] = Some(ty)]
                /\ lastVisit' = [kind |-> "write", name |-> Task.name,
                                 before |-> Task.before, after |-> Len(value_stack'),
                                 ty |-> ty, span |-> Task.span]
                /\ todo' = Tail(todo)
                /\ UNCHANGED panicked
    /\ UNCHANGED <<objects, errors, defDone>>
    /\ UNCHANGED flatVars

\* Callable handler, after the body: pop the body's value as the return
\* type, exit the scope, visit the parameters (no effect), and record the
\* callable in the root object's signature table.
DefExit ==
    /\ Running("def_exit")
    /\ IF value_stack = <<>>
       THEN panicked' = TRUE
            /\ UNCHANGED <<value_stack, scopes, objects, todo, defDone, lastVisit>>
       ELSE LET ret == top(value_stack)
            IN  /\ value_stack' = pop(value_stack)
                /\ scopes' = exit_scope(scopes)
                /\ objects' = record_method(objects, Task.name, ret)
                /\ defDone' = [kind |-> "def", name |-> Task.name, ret |-> ret,
                               bodyBefore |-> Task.before,
                               bodyAfter |-> Len(value_stack),
                               depthBefore |-> Task.depth,
                               depthAfter |-> Len(scopes'),
                               last |-> lastVisit]
                /\ lastVisit' = NoVisit
                /\ todo' = Tail(todo)
                /\ UNCHANGED panicked
    /\ UNCHANGED <<errors, written>>
    /\ UNCHANGED flatVars

vars == <<flatVars, checkerVars>>

Init == FlatInit /\ CheckerInit

Next ==
    \/ Typecheck
    \/ AddInstance

Spec == Init /\ [][Next]_vars

NextVisitor ==
    \/ NewChecker
    \/ VisitDef
    \/ VisitStatements
    \/ Discard
    \/ VisitInteger
    \/ VisitString
    \/ VisitLocalRead
    \/ VisitLocalWrite
    \/ WriteBind
    \/ DefExit

SpecVisitor == Init /\ [][NextVisitor]_vars

(***************************************************************************)
(* Part I: properties of typecheck and Env, checked under Spec.            *)
(***************************************************************************)
IsTypecheck == call.op = "typecheck"

CallTag == call.node.node_type.tag

\* The bindings a successful chain of assignments appends: one per target,
\* innermost target first, each with the type the chain yields.
ChainBindings(node, ty) ==
    LET ts == Targets(node)
    IN  [i \in 1..Len(ts) |-> Instance(ts[Len(ts) + 1 - i], ty)]

IsPrefix(s, t) == Len(s) <= Len(t) /\ SubSeq(t, 1, Len(s)) = s

\* C1: a read of a variable with no binding yields the "Unknown" type
\* instead of an error result.
C1_UndefinedReadYieldsUnknown ==
    (IsTypecheck /\ CallTag = "Variable"
        /\ get_instance_type(prevEnv, call.node.node_type.name) = None)
    => result = Ok(Type_Variable("Unknown"))

\* C2: after any sequence of successful assignments, every assigned name
\* resolves to the type of its last assignment, and reading the target back
\* right after an assignment yields the type of the assigned expression.
C2_LastAssignmentWins ==
    /\ \A n \in Names :
          lastAssigned[n] # None => get_instance_type(env, n) = lastAssigned[n]
    /\ (IsTypecheck /\ CallTag = "Assignment" /\ result.tag = "Ok")
       => typecheck(Node(NodeType_Variable(call.node.node_type.name), Location(2, 1)),
                    env).result
          = typecheck(call.node.node_type.node, prevEnv).result

C2_Witness ==
    /\ IsTypecheck /\ CallTag = "Assignment" /\ result.tag = "Ok"
    /\ \E i, j, k \in 1..Len(env.instances) :
          /\ i < j /\ j < k
          /\ env.instances[i].id = env.instances[k].id
          /\ env.instances[i].ty # env.instances[k].ty
          /\ env.instances[j].id # env.instances[k].id
          /\ lastAssigned[env.instances[j].id] # None

\* C3: an assignment binds its target to the type of its right-hand side and
\* returns that type; every target of a chain ending in a literal is bound
\* to the literal's type; x = <integer> on the default Env leaves
\* instances [x : Integer] and the class Integer { to_s() => String }.
C3_AssignmentIsExpression ==
    (IsTypecheck /\ CallTag = "Assignment" /\ result.tag = "Ok")
    => /\ result = typecheck(call.node.node_type.node, prevEnv).result
       /\ \A i \in 1..Len(Targets(call.node)) :
             get_instance_type(env, Targets(call.node)[i]) = Some(result.value)
       /\ Leaf(call.node).node_type.tag = "Integer"
             => result = Ok(Type_Variable("Integer"))
       /\ Leaf(call.node).node_type.tag = "String"
             => result = Ok(Type_Variable("String"))
       /\ (prevEnv = Env_default /\ Depth(call.node) = 1
              /\ Leaf(call.node).node_type.tag = "Integer")
          => env = Env_new(
                     <<Instance(call.node.node_type.name, Type_Variable("Integer"))>>,
                     "Integer" :> Class("to_s" :> Type_Function(<<>>, "String")))

C3_Witness ==
    /\ IsTypecheck /\ result = Ok(Type_Variable("Integer"))
    /\ Depth(call.node) = 2
    /\ Leaf(call.node).node_type.tag = "Integer"
    /\ Targets(call.node)[1] # Targets(call.node)[2]
    /\ get_instance_type(prevEnv, Targets(call.node)[2]) = Some(Type_Variable("String"))

\* C7: an Integer literal has type Variable("Integer") and a String literal
\* Variable("String"), whatever the literal's value and the bindings of env.
C7_LiteralTypes ==
    IsTypecheck
    => /\ CallTag = "Integer" => result = Ok(Type_Variable("Integer"))
       /\ CallTag = "String" => result = Ok(Type_Variable("String"))

C7_Witness ==
    /\ IsTypecheck /\ CallTag = "Integer" /\ call.node.node_type.value = 42
    /\ get_instance_type(prevEnv, "Integer") = Some(Type_Variable("String"))

\* C8: the instance list only grows at its end: before each call it is a
\* prefix of what the call leaves, and a successful chain of k assignments
\* appends exactly k bindings, innermost target first.
C8_InstancesAppendOnly ==
    /\ IsPrefix(prevEnv.instances, env.instances)
    /\ (IsTypecheck /\ result.tag = "Ok")
       => env.instances = prevEnv.instances \o ChainBindings(call.node, result.value)

C8_Witness ==
    /\ IsTypecheck /\ result.tag = "Ok" /\ Depth(call.node) = 2
    /\ Targets(call.node)[1] # Targets(call.node)[2]
    /\ get_instance_type(prevEnv, Targets(call.node)[1]) # None
    /\ Len(env.instances) = Len(prevEnv.instances) + 2

\* C9: no call changes the class table, and typecheck of a literal or of a
\* Variable node leaves the whole Env as it was.
C9_ClassesFixed ==
    /\ env.classes = default_class
    /\ env.classes = prevEnv.classes
    /\ get_class(env, "Integer") = Some(Class("to_s" :> Type_Function(<<>>, "String")))
    /\ (IsTypecheck /\ CallTag \in {"Integer", "String", "Variable"}) => env = prevEnv

C9_Witness ==
    /\ IsTypecheck /\ CallTag = "Variable" /\ result.tag = "Err"
    /\ env.instances # <<>>

\* C10: a call that returns an error leaves Env as it found it, so no target
\* of a failed chain is bound, and the error names the unbound variable and
\* carries the Variable node that was read.
C10_ErrorLeavesEnvUntouched ==
    (IsTypecheck /\ result.tag = "Err")
    => /\ env = prevEnv
       /\ \A i \in 1..Len(Targets(call.node)) :
             get_instance_type(env, Targets(call.node)[i])
             = get_instance_type(prevEnv, Targets(call.node)[i])
       /\ Leaf(call.node).node_type.tag = "Variable"
       /\ result.error.kind = UndefinedVariable(Leaf(call.node).node_type.name)
       /\ result.error.node = Leaf(call.node)

C10_Witness ==
    /\ IsTypecheck /\ result.tag = "Err" /\ Depth(call.node) = 2
    /\ env.instances # <<>>
    /\ \A i \in 1..2 : get_instance_type(env, Targets(call.node)[i]) = None

(***************************************************************************)
(* Part II: properties of the visitor engine, checked under SpecVisitor.   *)
(***************************************************************************)
MainMethods == get_object(objects, "#main").value.methods

C5_ScopeBracketing ==
    /\ todo = <<>> => scopes = <<>>
    /\ todo # <<>> => Len(scopes) = 1
    /\ defDone.kind = "def" => defDone.depthAfter = defDone.depthBefore
    /\ lastVisit.kind = "read"
          => lastVisit.ty = IF written[lastVisit.name] = None THEN Unknown
                            ELSE written[lastVisit.name].value
    /\ (defDone.kind = "def" /\ defDone.last.kind = "read")
          => defDone.ret = IF written[defDone.last.name] = None THEN Unknown
                           ELSE written[defDone.last.name].value

C5_Witness ==
    /\ defDone.kind = "def" /\ defDone.name = "b"
    /\ defDone.last.kind = "read" /\ defDone.ret = Type_alias("String")
    /\ "a" \in DOMAIN MainMethods
    /\ MainMethods["a"].ret = Type_alias("Integer")
    /\ errors # <<>>

====
